---------------------------- MODULE Spec2Model ----------------------------
(***************************************************************************)
(* Verification model of the glacier flow model                            *)
(*   - the annual simulation controller  (glacier_flow_model/model.py)     *)
(*   - the fractional D8 flow routers    (glacier_flow_model/fracd8/)      *)
(*                                                                         *)
(* Numbers.  Thickness is counted in units of 1/MDen metre, so that the    *)
(* mass balance m * (ele_orig - ela) with m = MNum / MDen is the integer   *)
(* MNum * (ele_orig - ela).  Means (mass, trends) are exact rationals      *)
(* [num, den]; the float NaN that numpy returns for the mean of an empty   *)
(* selection is the rational with den = 0.  Velocity is counted in units   *)
(* of res / Res.                                                           *)
(***************************************************************************)
EXTENDS Integers, Sequences, FiniteSets, TLC

(***************************************************************************)
(* Bounds of the model                                                     *)
(***************************************************************************)
NumCells == 2       \* cells of the (one row) controller grid
MaxYears == 2       \* largest max_years argument of a call
MaxCalls == 3       \* public calls made on one instance

(***************************************************************************)
(* Program constants                                                       *)
(***************************************************************************)
ela_start == 2850   \* constructor default ela
MNum == 3           \* m = 0.006 = 3 / 500
MDen == 500
STrendSize == 20    \* short term trend window
LTrendSize == 100   \* long term trend window
Res == 10000        \* grid resolution, in velocity units
UCapPercent == 99   \* u is capped at 0.99 * res
FilterSize == 5     \* uniform_filter(size=5)

Cells == 1..NumCells

\* Original topography [m]: cell 1 lies above the initial equilibrium line,
\* the following cells below it.
ele_orig == [c \in Cells |-> ela_start + 26 - 14 * c]

(***************************************************************************)
(* Exact rational arithmetic with NaN                                      *)
(***************************************************************************)
Abs(x) == IF x < 0 THEN -x ELSE x

RECURSIVE GCD(_, _)
GCD(a, b) == IF b = 0 THEN a ELSE GCD(b, a % b)

NaN == [num |-> 0, den |-> 0]

IsNaN(r) == r.den = 0

Rat(n, d) ==
    IF d = 0 THEN NaN
    ELSE LET g == GCD(Abs(n), Abs(d))
             s == IF d < 0 THEN -1 ELSE 1
         IN  [num |-> (s * n) \div g, den |-> (s * d) \div g]

RInt(n) == [num |-> n, den |-> 1]

RAdd(a, b) ==
    IF IsNaN(a) \/ IsNaN(b) THEN NaN
    ELSE Rat(a.num * b.den + b.num * a.den, a.den * b.den)

RSub(a, b) ==
    IF IsNaN(a) \/ IsNaN(b) THEN NaN
    ELSE Rat(a.num * b.den - b.num * a.den, a.den * b.den)

RNeg(a) == IF IsNaN(a) THEN NaN ELSE [num |-> -a.num, den |-> a.den]

\* a <= b as IEEE comparison: false when either side is NaN
RLe(a, b) ==
    /\ ~IsNaN(a)
    /\ ~IsNaN(b)
    /\ a.num * b.den <= b.num * a.den

RECURSIVE RSum(_)
RSum(s) == IF s = <<>> THEN RInt(0) ELSE RAdd(Head(s), RSum(Tail(s)))

\* np.mean of a one-dimensional series
RMean(s) ==
    LET t == RSum(s)
    IN  IF Len(s) = 0 \/ IsNaN(t) THEN NaN ELSE Rat(t.num, t.den * Len(s))

\* s[-n:]
LastN(s, n) == IF Len(s) <= n THEN s ELSE SubSeq(s, Len(s) - n + 1, Len(s))

Last(s) == s[Len(s)]


(***************************************************************************)
(* State                                                                   *)
(***************************************************************************)
VARIABLES
    \* GlacierFlowModel instance
    tolerance,              \* constructor argument, a rational [1/MDen m]
    i,                      \* year
    ela,                    \* equilibrium line altitude [m]
    steady_state,           \* control variable for steady state
    ele,                    \* elevation including glaciers [1/MDen m]
    h,                      \* glacier geometry (thickness) [1/MDen m]
    u,                      \* glacier velocity
    mass,                   \* time series: mean ice mass
    mass_balance,           \* time series: first difference of mass
    mass_balance_s_trend,   \* time series: short term trend
    mass_balance_l_trend,   \* time series: long term trend
    \* the public call in progress (frame of _iterate)
    pc,                     \* "idle" | "iterate"
    op,                     \* the last public call made
    temp_change,            \* argument of _iterate, in 1/TcDen degrees
    max_years,              \* argument of _iterate
    loop_i,                 \* years ticked so far by the running loop
    outcome,                \* how the last call ended
    calls                   \* number of public calls made

gfm == <<i, ela, steady_state, ele, h, u,
         mass, mass_balance, mass_balance_s_trend, mass_balance_l_trend>>

frame == <<pc, op, temp_change, max_years, loop_i, outcome, calls>>

ctl_vars == <<tolerance, gfm, frame>>

\* temp_change is counted in 1/TcDen degrees: 100 * temp_change [m] is
\* temp_change * 100 / TcDen, so that half metres are expressible.
TcDen == 200

TempChanges == {-3, -2, 0, 1, 2, 4}

\* tolerance values offered to the constructor: the default 0.0001 m and a
\* coarse one that the short runs of this model can meet
Tolerances == {Rat(MDen, 10000), RInt(8)}

\* slope dependent velocity magnitudes offered to _flow (0.5 res, 1.5 res)
Speeds == {0, Res \div 2, (3 * Res) \div 2}

\* flow directions of the one row grid: to the next cell, to the previous
\* cell, or out of the row
Directions == {"next", "prev", "out"}

\* the class attribute MODEL_RANDOM_NUDGING
MODEL_RANDOM_NUDGING == TRUE

\* the D8 classes of the classified aspect
AspectClasses == 1..8

\* np.clip(np.random.normal(...).astype(int), -1, 1): the values one draw
\* of the unseeded generator can add to the class of a cell
Draws == IF MODEL_RANDOM_NUDGING THEN {-1, 0, 1} ELSE {0}

\* asp = asp + draw; asp[asp == 9] = 1; asp[asp == 0] = 8
nudged(asp, draw) ==
    LET a == asp + draw
    IN  IF a = 9 THEN 1 ELSE IF a = 0 THEN 8 ELSE a

\* the shift of the change layer of class asp in the one row grid: class 2
\* moves it one column up, class 6 one column down, every other class
\* moves it by a row and so out of the grid
shift_of(asp) ==
    CASE asp = 2 -> "next"
      [] asp = 6 -> "prev"
      [] OTHER   -> "out"

\* the shifts a cell can get in one year: any class, with any draw
NudgedShifts ==
    {shift_of(nudged(asp, draw)) : asp \in AspectClasses, draw \in Draws}

Zeros == [c \in Cells |-> 0]

(***************************************************************************)
(* _setup_params, _setup_arrays, _setup_stats                              *)
(***************************************************************************)
setup_params ==
    /\ i' = 0
    /\ ela' = ela_start
    /\ steady_state' = FALSE

setup_arrays ==
    /\ ele' = [c \in Cells |-> MDen * ele_orig[c]]
    /\ h' = [c \in Cells |-> ele_orig[c] * 0]
    /\ u' = [c \in Cells |-> ele_orig[c] * 0]

\* a reset that forgets the statistics
setup_stats_kept ==
    UNCHANGED <<mass, mass_balance, mass_balance_s_trend, mass_balance_l_trend>>

setup_stats ==
    /\ mass' = <<RInt(0)>>
    /\ mass_balance' = <<RInt(0)>>
    /\ mass_balance_s_trend' = <<RInt(0)>>
    /\ mass_balance_l_trend' = <<RInt(0)>>

(***************************************************************************)
(* __init__                                                                *)
(***************************************************************************)
CtlInit ==
    /\ tolerance \in Tolerances
    /\ i = 0
    /\ ela = ela_start
    /\ steady_state = FALSE
    /\ ele = [c \in Cells |-> MDen * ele_orig[c]]
    /\ h = Zeros
    /\ u = Zeros
    /\ mass = <<RInt(0)>>
    /\ mass_balance = <<RInt(0)>>
    /\ mass_balance_s_trend = <<RInt(0)>>
    /\ mass_balance_l_trend = <<RInt(0)>>
    /\ pc = "idle"
    /\ op = "none"
    /\ temp_change = 0
    /\ max_years = 0
    /\ loop_i = 0
    /\ outcome = "none"
    /\ calls = 0

(***************************************************************************)
(* Grid filters of the one row grid (scipy.ndimage, boundary mode          *)
(* 'reflect': d c b a | a b c d | d c b a), results rounded down to the    *)
(* thickness unit                                                          *)
(***************************************************************************)
Reflect(k) ==
    LET r == (k - 1) % (2 * NumCells)
    IN  IF r < NumCells THEN r + 1 ELSE 2 * NumCells - r

RECURSIVE WindowSum(_, _, _)
WindowSum(x, lo, hi) ==
    IF lo > hi THEN 0 ELSE x[Reflect(lo)] + WindowSum(x, lo + 1, hi)

\* uniform_filter(x, size = FilterSize): the mean over the centred window
uniform_filter(x) ==
    [c \in Cells |->
        WindowSum(x, c - FilterSize \div 2, c + FilterSize \div 2)
            \div FilterSize]

\* gaussian_filter(x, sigma = 5), with the kernel truncated to the two
\* neighbours (weights 1 2 1)
gaussian_filter(x) ==
    [c \in Cells |->
        (x[Reflect(c - 1)] + 2 * x[c] + x[Reflect(c + 1)]) \div 4]

(***************************************************************************)
(* _add_mass_balance                                                       *)
(***************************************************************************)
\* a mass balance without the clipping h * (h > 0)
add_mass_balance_unclipped(h0, ela0) ==
    [c \in Cells |-> h0[c] + MNum * (ele_orig[c] - ela0)]

\* h += m * (ele_orig - ela); h = h * (h > 0)
add_mass_balance_h(h0, ela0) ==
    [c \in Cells |->
        LET b  == MNum * (ele_orig[c] - ela0)
            h1 == h0[c] + b
        IN  IF h1 > 0 THEN h1 ELSE 0]

\* ele = ele_orig + h, smoothed where there is ice
add_mass_balance_ele(h1) ==
    LET raw == [c \in Cells |-> MDen * ele_orig[c] + h1[c]]
        smo == gaussian_filter(raw)
    IN  [c \in Cells |-> IF h1[c] = 0 THEN MDen * ele_orig[c] ELSE smo[c]]

(***************************************************************************)
(* _flow.  The slope dependent magnitude of the deformation law and the    *)
(* (randomly nudged) aspect class are inputs: speed and dir.               *)
(***************************************************************************)
UCap == (UCapPercent * Res) \div 100

\* u = ud / 100 with ud proportional to h^4, capped at 0.99 res
flow_u(h1, speed) ==
    [c \in Cells |->
        LET raw == IF h1[c] > 0 THEN speed ELSE 0
        IN  IF raw > UCap THEN UCap ELSE raw]

\* change = (u / res) * h
flow_change(h1, u1) == [c \in Cells |-> (u1[c] * h1[c]) \div Res]

\* the change arriving in cell c: the shifted change layer, zero filled
flow_inflow(change, dir, c) ==
    CASE dir = "next" -> IF c - 1 \in Cells THEN change[c - 1] ELSE 0
      [] dir = "prev" -> IF c + 1 \in Cells THEN change[c + 1] ELSE 0
      [] OTHER        -> 0

\* h = h - change + inflow; cells below m are set to zero after the
\* uniform filter
flow_h(h1, u1, dir) ==
    LET change == flow_change(h1, u1)
        h_new  == [c \in Cells |->
                      h1[c] - change[c] + flow_inflow(change, dir, c)]
        h_fil  == uniform_filter(h_new)
    IN  [c \in Cells |-> IF h_new[c] < MNum THEN 0 ELSE h_fil[c]]

(***************************************************************************)
(* _update_stats                                                           *)
(***************************************************************************)
RECURSIVE IceSum(_, _)
IceSum(hh, c) ==
    IF c = 0 THEN 0
    ELSE (IF hh[c] > 0 THEN hh[c] ELSE 0) + IceSum(hh, c - 1)

IceCount(hh) == Cardinality({c \in Cells : hh[c] > 0})

\* np.mean(h[h > 0]): NaN when there is no ice
mean_ice(hh) == Rat(IceSum(hh, NumCells), IceCount(hh))

stats_mass(hh) == Append(mass, mean_ice(hh))

stats_mass_balance(mass1) ==
    Append(mass_balance, RSub(mass1[Len(mass1)], mass1[Len(mass1) - 1]))

\* the trend appended in year yr for a window of the given size
trend_value(mb1, yr, size) ==
    IF yr < size THEN RMean(mb1) ELSE RMean(LastN(mb1, size))

update_stats(yr, hh) ==
    LET mass1 == stats_mass(hh)
        mb1   == stats_mass_balance(mass1)
    IN  /\ mass' = mass1
        /\ mass_balance' = mb1
        /\ mass_balance_s_trend' =
               Append(mass_balance_s_trend, trend_value(mb1, yr, STrendSize))
        /\ mass_balance_l_trend' =
               Append(mass_balance_l_trend, trend_value(mb1, yr, LTrendSize))

(***************************************************************************)
(* _iterate: one pass of the loop body is one year tick                    *)
(***************************************************************************)
\* the forcing ramp: ela moves one metre per year towards
\* ela_start + 100 * temp_change
adjust_ela(ela0, tc) ==
    IF tc > 0 /\ TcDen * ela0 < TcDen * ela_start + 100 * tc THEN ela0 + 1
    ELSE IF tc < 0 /\ TcDen * ela0 > TcDen * ela_start + 100 * tc THEN ela0 - 1
    ELSE ela0

\* -tolerance <= mass_balance_l_trend[-1] <= tolerance
is_steady(trend, tol) == RLe(RNeg(tol), trend) /\ RLe(trend, tol)

\* a loop that runs one year too many
loop_continues_inclusive(k, my) == k <= my

\* for i in range(max_years)
loop_continues(k, my) == k < my

YearTick(speed, dir) ==
    /\ pc = "iterate"
    /\ loop_continues(loop_i, max_years)
    /\ LET h1   == add_mass_balance_h(h, ela)
           ele1 == add_mass_balance_ele(h1)
           u1   == flow_u(h1, speed)
           h2   == flow_h(h1, u1, dir)
       IN  /\ i' = loop_i
           /\ ele' = ele1
           /\ u' = u1
           /\ h' = h2
           /\ update_stats(loop_i, h2)
    /\ ela' = adjust_ela(ela, temp_change)
    /\ loop_i' = loop_i + 1
    /\ IF is_steady(Last(mass_balance_l_trend'), tolerance)
       THEN /\ steady_state' = TRUE
            /\ pc' = "idle"
            /\ outcome' = "steady"
       ELSE /\ steady_state' = steady_state
            /\ pc' = "iterate"
            /\ outcome' = outcome
    /\ UNCHANGED <<tolerance, op, temp_change, max_years, calls>>

\* the loop ran out of years: "Steady state was not reached"
IterateExit ==
    /\ pc = "iterate"
    /\ ~loop_continues(loop_i, max_years)
    /\ pc' = "idle"
    /\ outcome' = "not_converged"
    /\ UNCHANGED <<tolerance, gfm, op, temp_change, max_years, loop_i, calls>>

(***************************************************************************)
(* Public operations                                                       *)
(***************************************************************************)
enter_iterate(name, tc, my) ==
    /\ pc' = "iterate"
    /\ op' = name
    /\ temp_change' = tc
    /\ max_years' = my
    /\ loop_i' = 0
    /\ outcome' = "running"
    /\ calls' = calls + 1

reach_steady_state(my) ==
    /\ pc = "idle"
    /\ calls < MaxCalls
    /\ setup_params
    /\ setup_arrays
    /\ setup_stats
    /\ enter_iterate("reach_steady_state", 0, my)
    /\ UNCHANGED tolerance

\* a simulate without the steady state precondition
simulate_never_rejects == FALSE

\* if not self.steady_state: warn and return
simulate_rejects == ~steady_state

\* a simulate that resets the parameters with _setup_params
simulate_setup_params(tc, my) ==
    /\ pc = "idle"
    /\ calls < MaxCalls
    /\ IF simulate_rejects
       THEN /\ op' = "simulate"
            /\ outcome' = "rejected"
            /\ calls' = calls + 1
            /\ UNCHANGED <<gfm, pc, temp_change, max_years, loop_i>>
       ELSE /\ setup_params
            /\ enter_iterate("simulate", tc, my)
            /\ UNCHANGED <<ele, h, u, mass, mass_balance,
                           mass_balance_s_trend, mass_balance_l_trend>>
    /\ UNCHANGED tolerance

simulate(tc, my) ==
    /\ pc = "idle"
    /\ calls < MaxCalls
    /\ IF simulate_rejects
       THEN /\ op' = "simulate"
            /\ outcome' = "rejected"
            /\ calls' = calls + 1
            /\ UNCHANGED <<gfm, pc, temp_change, max_years, loop_i>>
       ELSE /\ i' = 0
            /\ steady_state' = FALSE
            /\ enter_iterate("simulate", tc, my)
            /\ UNCHANGED <<ela, ele, h, u, mass, mass_balance,
                           mass_balance_s_trend, mass_balance_l_trend>>
    /\ UNCHANGED tolerance

(***************************************************************************)
(***************************************************************************)
(* The fracd8 routers.  A grid is a function of <<y, x>>, rows 0..Rows-1   *)
(* and columns 0..Cols-1.  Elevations are integers; the conversion         *)
(* ele.astype(np.float32) is computed as IEEE round to nearest even on 24  *)
(* significant bits.  Thickness is counted in halves of the 1e-5           *)
(* threshold, and returned thickness in Res-th of the unit of the          *)
(* argument, so that every product h * (u / res) is an integer.            *)
(***************************************************************************)
(***************************************************************************)
Rows == 3
Cols == 4

Threshold == 2      \* 0.00001, in thickness units

\* The thickness grid passed to a router is counted in 1/r_h_den of the
\* thickness unit: 1 for a grid the caller made up, Res for a grid that a
\* router returned.
VARIABLE r_h_den

\* h_0 < 0.00001
below_threshold(h_0) == h_0 < Threshold * r_h_den

Grid == (0..(Rows - 1)) \X (0..(Cols - 1))

Interior == {c \in Grid : /\ c[1] >= 1 /\ c[1] <= Rows - 2
                          /\ c[2] >= 1 /\ c[2] <= Cols - 2}

Border == Grid \ Interior

(***************************************************************************)
(* float32                                                                 *)
(***************************************************************************)
RECURSIVE Ulp(_, _)
\* the spacing of float32 values around n >= 0: the least power of two p
\* with n < 2^24 * p
Ulp(n, p) == IF n < 16777216 * p THEN p ELSE Ulp(n, 2 * p)

\* n >= 0 rounded to a multiple of p, ties to the even multiple
RoundEven(n, p) ==
    LET q == n \div p
        r == n % p
    IN  IF 2 * r > p \/ (2 * r = p /\ q % 2 = 1) THEN (q + 1) * p ELSE q * p

\* n >= 0 rounded to float32
F32Pos(n) == RoundEven(n, Ulp(n, 1))

F32(n) == IF n < 0 THEN -F32Pos(-n) ELSE F32Pos(n)

(***************************************************************************)
(* position                                                                *)
(***************************************************************************)
\* the list pos of the source, as offsets <<dy, dx>>, index 0..8
PosTable ==
    <<  <<1, 1>>, <<0, 1>>, <<-1, 1>>, <<-1, 0>>,
        <<-1, -1>>, <<0, -1>>, <<1, -1>>, <<1, 0>> >>

\* a table that takes its pairs as (x, y)
position_transposed(x, y, n) ==
    IF n = 0 THEN <<y, x>>
    ELSE <<y + PosTable[n][2], x + PosTable[n][1]>>

\* position(x, y, n) = pos[n], for n in 0..8
position(x, y, n) ==
    IF n = 0 THEN <<y, x>>
    ELSE <<y + PosTable[n][1], x + PosTable[n][2]>>

(***************************************************************************)
(* Classify aspect: the steepest positive dz among pos[1..8]               *)
(***************************************************************************)
\* a comparison that lets a later neighbour with the same drop win
steeper_or_equal(dz_tmp, dz) == dz_tmp >= dz

\* if dz_tmp > dz: asp_0 = i; dz = dz_tmp
steeper(dz_tmp, dz) == dz_tmp > dz

\* ele_0 - ele[pos[i]] in the element type of the array: a float32
\* difference is rounded to float32 again
drop(e, single, y, x, n) ==
    LET d == e[<<y, x>>] - e[position(x, y, n)]
    IN  IF single THEN F32(d) ELSE d

RECURSIVE steepest(_, _, _, _, _, _, _), steepest_step(_, _, _, _, _, _, _, _)
\* the loop for i in range(1, 9) from index n on
steepest(e, single, y, x, n, asp_0, dz) ==
    IF n > 8 THEN asp_0
    ELSE steepest_step(e, single, y, x, n, asp_0, dz, drop(e, single, y, x, n))

steepest_step(e, single, y, x, n, asp_0, dz, dz_tmp) ==
    IF steeper(dz_tmp, dz)
    THEN steepest(e, single, y, x, n + 1, n, dz_tmp)
    ELSE steepest(e, single, y, x, n + 1, asp_0, dz)

\* a function as its table of values
Table(f) == f @@ <<>>

\* ele.astype(np.float32)
astype_float32(e) == Table([c \in Grid |-> F32(e[c])])

\* the loops over the interior cells of e; the border ring keeps the value
\* the array was filled with
aspect_loop(e, single, fill) ==
    Table([c \in Grid |->
              IF c \in Interior
              THEN steepest(e, single, c[1], c[2], 1, 0, 0)
              ELSE fill])

\* direction.py: ele = ele.astype(np.float32); asp = zeros(uint8)
classify_aspect(e) == aspect_loop(astype_float32(e), TRUE, 0)

\* infinite.py: as classify_aspect, but asp[:] = np.nan on the uint8 array
\* first: the border ring holds the value nan, whatever the conversion of
\* NaN to uint8 yields
aspect(e, nan) == aspect_loop(astype_float32(e), TRUE, nan)

\* limited.py: the same loop inline, on ele as it is passed
lim_aspect(e) == aspect_loop(e, FALSE, 0)

(***************************************************************************)
(* Scatter-add of the deposits of all interior cells into h_flow           *)
(***************************************************************************)
\* the interior cells in the order of the loops over y and x
InteriorSeq ==
    [k \in 1..((Rows - 2) * (Cols - 2)) |->
        <<1 + ((k - 1) \div (Cols - 2)), 1 + ((k - 1) % (Cols - 2))>>]

\* array indexing: a negative index counts from the end; -1 stands for an
\* index outside the array
Index(k, n) ==
    IF k >= 0 /\ k < n THEN k
    ELSE IF k < 0 /\ k >= -n THEN k + n
    ELSE -1

InArray(y, x) == Index(y, Rows) >= 0 /\ Index(x, Cols) >= 0

At(y, x) == <<Index(y, Rows), Index(x, Cols)>>

NoDeposit == [fail |-> FALSE, d |-> <<>>]

Failure == [fail |-> TRUE, d |-> <<>>]

RECURSIVE Overwritten(_, _)
\* an assignment h_flow[cell] = amount in place of +=: the last one stays
Overwritten(d, c) ==
    IF d = <<>> THEN 0
    ELSE IF \E k \in 1..Len(Tail(d)) : Tail(d)[k][1] = c
         THEN Overwritten(Tail(d), c)
    ELSE IF Head(d)[1] = c THEN Head(d)[2] ELSE 0

RECURSIVE Deposited(_, _)
\* the amount the deposits d add to cell c
Deposited(d, c) ==
    IF d = <<>> THEN 0
    ELSE (IF Head(d)[1] = c THEN Head(d)[2] ELSE 0) + Deposited(Tail(d), c)

\* the deposits of two loop bodies, one after the other
Both(a, b) == [fail |-> a.fail \/ b.fail, d |-> a.d \o b.d]

\* h_flow = zeros; h_flow[cell] += amount for every deposit
Scatter(dep) ==
    [h_flow |-> Table([c \in Grid |-> Deposited(dep.d, c)]),
     failed |-> dep.fail]

(***************************************************************************)
(* fracd8_lim                                                              *)
(***************************************************************************)
\* a fraction without the cap at 0.9999 * res
lim_fraction_uncapped(u_0, res) == u_0

\* fraction = min(u_0, 0.9999 * res) / res, as the numerator over res
lim_fraction(u_0, res) ==
    LET cap == (9999 * res) \div 10000
    IN  IF u_0 < cap THEN u_0 ELSE cap

\* what the loop body of cell s adds to h_flow
lim_deposit(asp, uu, hh, res, s) ==
    LET h_0   == hh[s]
        asp_0 == asp[s]
        f     == lim_fraction(uu[s], res)
    IN  IF below_threshold(h_0) THEN NoDeposit
        ELSE IF asp_0 = 0
             THEN [fail |-> FALSE, d |-> << <<s, h_0 * res>> >>]
        ELSE [fail |-> FALSE,
              d |-> << <<s, h_0 * (res - f)>>,
                       <<position(s[2], s[1], asp_0), h_0 * f>> >>]

RECURSIVE lim_loop(_, _, _, _, _)
\* the loop over the interior cells from the k-th on
lim_loop(asp, uu, hh, res, k) ==
    IF k > Len(InteriorSeq) THEN NoDeposit
    ELSE Both(lim_deposit(asp, uu, hh, res, InteriorSeq[k]),
              lim_loop(asp, uu, hh, res, k + 1))

lim_flow(asp, uu, hh, res) ==
    [asp |-> asp] @@ Scatter(lim_loop(asp, uu, hh, res, 1))

fracd8_lim(e, uu, hh, res) == lim_flow(lim_aspect(e), uu, hh, res)

(***************************************************************************)
(* fracd8_inf                                                              *)
(***************************************************************************)
RECURSIVE follow(_, _, _, _)
\* for _ in range(offset): asp_step = asp[y_i, x_i];
\*                         y_i, x_i = position(x_i, y_i, asp_step)
follow(asp, y_i, x_i, offset) ==
    IF offset <= 0 THEN [fail |-> FALSE, y |-> y_i, x |-> x_i]
    ELSE IF ~InArray(y_i, x_i) THEN [fail |-> TRUE, y |-> y_i, x |-> x_i]
    ELSE LET asp_step == asp[At(y_i, x_i)]
         IN  IF asp_step > 8 THEN [fail |-> TRUE, y |-> y_i, x |-> x_i]
             ELSE LET p == position(x_i, y_i, asp_step)
                  IN  follow(asp, p[1], p[2], offset - 1)

\* offset = min(int(frac), max_offset)
inf_offset(u_0, res, max_offset) ==
    LET whole == u_0 \div res
    IN  IF whole < max_offset THEN whole ELSE max_offset

\* frac_share = frac - int(frac), as the numerator over res
inf_share(u_0, res) == u_0 % res

\* h_flow[y_i, x_i] += h_0 * (1 - frac_share)
\* h_flow[position(x_i, y_i, asp[y_i, x_i])] += h_0 * frac_share
inf_land(asp, h_0, res, share, w) ==
    IF w.fail \/ ~InArray(w.y, w.x) THEN Failure
    ELSE IF asp[At(w.y, w.x)] > 8 THEN Failure
    ELSE LET p == position(w.x, w.y, asp[At(w.y, w.x)])
         IN  IF ~InArray(p[1], p[2]) THEN Failure
             ELSE [fail |-> FALSE,
                   d |-> << <<At(w.y, w.x), h_0 * (res - share)>>,
                            <<At(p[1], p[2]), h_0 * share>> >>]

\* what the loop body of cell s adds to h_flow
inf_deposit(asp, uu, hh, res, max_offset, s) ==
    LET h_0   == hh[s]
        asp_0 == asp[s]
    IN  IF below_threshold(h_0) THEN NoDeposit
        ELSE IF asp_0 = 0
             THEN [fail |-> FALSE, d |-> << <<s, h_0 * res>> >>]
        ELSE inf_land(asp, h_0, res, inf_share(uu[s], res),
                      follow(asp, s[1], s[2],
                             inf_offset(uu[s], res, max_offset)))

RECURSIVE inf_loop(_, _, _, _, _, _)
\* the loop over the interior cells from the k-th on
inf_loop(asp, uu, hh, res, max_offset, k) ==
    IF k > Len(InteriorSeq) THEN NoDeposit
    ELSE Both(inf_deposit(asp, uu, hh, res, max_offset, InteriorSeq[k]),
              inf_loop(asp, uu, hh, res, max_offset, k + 1))

inf_flow(asp, uu, hh, res, max_offset) ==
    [asp |-> asp] @@ Scatter(inf_loop(asp, uu, hh, res, max_offset, 1))

fracd8_inf(e, uu, hh, res, max_offset, nan) ==
    inf_flow(aspect(e, nan), uu, hh, res, max_offset)

(***************************************************************************)
(* fracd8                                                                  *)
(***************************************************************************)
Max2(a, b) == IF a > b THEN a ELSE b

RECURSIVE MaxFrom(_, _, _)
\* the largest of m and the values of g on the cells of the row major
\* order from index k on
MaxFrom(g, k, m) ==
    IF k >= Rows * Cols THEN m
    ELSE MaxFrom(g, k + 1, Max2(m, g[<<k \div Cols, k % Cols>>]))

\* u.max()
grid_max(g) == MaxFrom(g, 1, g[<<0, 0>>])

\* if max_offset < 1 or u.max() < res
\* a selector that still takes u.max() = res for slow
selects_limited_inclusive(uu, res, max_offset) ==
    max_offset < 1 \/ grid_max(uu) <= res

selects_limited(uu, res, max_offset) == max_offset < 1 \/ grid_max(uu) < res

fracd8(e, uu, hh, res, max_offset, nan) ==
    IF selects_limited(uu, res, max_offset)
    THEN [mode |-> "limited"] @@ fracd8_lim(e, uu, hh, res)
    ELSE [mode |-> "infinite"] @@ fracd8_inf(e, uu, hh, res, max_offset, nan)

(***************************************************************************)
(* State of the routing calls: the input grids and the returned values     *)
(***************************************************************************)
VARIABLES
    r_ele,          \* argument ele
    r_u,            \* argument u
    r_h,            \* argument h
    poked,          \* the input cells <<layer, cell>> changed so far
    out_fn,         \* the function that was called, "none" before the call
    out_max_offset, \* its argument max_offset
    out_nan,        \* what the conversion of NaN to uint8 yielded in it
    out_h,          \* returned h_flow, in Res-th of the thickness unit
    out_asp,        \* returned asp
    out_mode,       \* returned mode
    out_failed      \* the call indexed outside an array or the list pos

route_in == <<r_ele, r_u, r_h, r_h_den, poked>>

route_out == <<out_fn, out_max_offset, out_nan, out_h, out_asp, out_mode,
               out_failed>>

route_vars == <<route_in, route_out>>


MaxElePokes == 2    \* cells lowered on the plateau (SpecAspect)
MaxPokes == 1       \* cells changed in the valley grids (SpecRoute)
MaxOffset == 2      \* largest max_offset argument (SpecRoute)
DefaultMaxOffset == 5   \* fracd8(..., max_offset: int = 5)

\* elevations: every cell of the plateau has the value EleBase; a cell
\* lowered by one is no float32 value and rounds back to where it was
EleBase == 16777216 + 64

Plateau == [c \in Grid |-> EleBase]

\* a valley along row 1 that falls towards the last column
Valley ==
    [c \in Grid |-> EleBase + 8 * (Cols - 1 - c[2]) + 4 * Abs(c[1] - 1)]

EleDrops == {1, 2, 4}

\* in the valley: a cell lowered by one (no float32 value) or into a pit
ValleyDrops == {1, 16}

\* thickness: 1e-5 everywhere, poked to nothing, to half the threshold, to
\* 3e-5 or to a thick cell
HBase == Threshold

\* a thick cell: its parts are large enough, counted in Res-th of the
\* thickness unit, for the spacing of float32 values to exceed one
HThick == 26845

HPokes == {0, Threshold \div 2, 3 * Threshold, HThick}

\* velocity: uniform 0.5 res or 2.5 res, poked to 0, res or 3.5 res in an
\* interior cell or in the corner of the border ring
UBases == {Res \div 2, (5 * Res) \div 2}

UPokes == {0, Res, (7 * Res) \div 2}

UCells == Interior \cup {<<0, 0>>}

\* values of the uint8 border ring after asp[:] = np.nan: the conversion is
\* undefined, these stand for "pit", "a direction" and "no direction"
NanCasts == {0, 1, 255}

NoCall ==
    /\ r_h_den = 1
    /\ poked = {}
    /\ out_fn = "none"
    /\ out_max_offset = 0
    /\ out_nan = 0
    /\ out_h = [c \in Grid |-> 0]
    /\ out_asp = [c \in Grid |-> 0]
    /\ out_mode = "none"
    /\ out_failed = FALSE

\* SpecRoute: the valley under uniform thickness and velocity
RouteInit ==
    /\ r_ele = Valley
    /\ r_u \in {[c \in Grid |-> v] : v \in UBases}
    /\ r_h = [c \in Grid |-> HBase]
    /\ NoCall

\* SpecAspect: the plateau, everything faster than the resolution
AspectInit ==
    /\ r_ele = Plateau
    /\ r_u = [c \in Grid |-> (5 * Res) \div 2]
    /\ r_h = [c \in Grid |-> HBase]
    /\ NoCall

\* the routing state of a specification that makes no routing call
RouteIdle ==
    /\ r_ele = Plateau
    /\ r_u = [c \in Grid |-> 0]
    /\ r_h = [c \in Grid |-> HBase]
    /\ NoCall

(***************************************************************************)
(* The caller prepares the input grids                                     *)
(***************************************************************************)
PokeEle(c, d, budget) ==
    /\ out_fn = "none"
    /\ r_h_den = 1
    /\ Cardinality(poked) < budget
    /\ <<"ele", c>> \notin poked
    /\ r_ele' = [r_ele EXCEPT ![c] = @ - d]
    /\ poked' = poked \cup {<<"ele", c>>}
    /\ UNCHANGED <<r_u, r_h, r_h_den, route_out>>

PokeH(c, v) ==
    /\ out_fn = "none"
    /\ r_h_den = 1
    /\ Cardinality(poked) < MaxPokes
    /\ <<"h", c>> \notin poked
    /\ r_h' = [r_h EXCEPT ![c] = v]
    /\ poked' = poked \cup {<<"h", c>>}
    /\ UNCHANGED <<r_ele, r_u, r_h_den, route_out>>

PokeU(c, v) ==
    /\ out_fn = "none"
    /\ r_h_den = 1
    /\ Cardinality(poked) < MaxPokes
    /\ <<"u", c>> \notin poked
    /\ r_u' = [r_u EXCEPT ![c] = v]
    /\ poked' = poked \cup {<<"u", c>>}
    /\ UNCHANGED <<r_ele, r_h, r_h_den, route_out>>

(***************************************************************************)
(* The calls                                                               *)
(***************************************************************************)
returned(fn, max_offset, nan, r, mode) ==
    /\ out_fn' = fn
    /\ out_max_offset' = max_offset
    /\ out_nan' = nan
    /\ out_h' = r.h_flow
    /\ out_asp' = r.asp
    /\ out_mode' = mode
    /\ out_failed' = r.failed
    /\ UNCHANGED route_in

Call_classify_aspect ==
    /\ out_fn = "none"
    /\ returned("classify_aspect", 0, 0,
                [h_flow |-> out_h, asp |-> classify_aspect(r_ele),
                 failed |-> FALSE], "none")

Call_fracd8_lim ==
    /\ out_fn = "none"
    /\ returned("fracd8_lim", 0, 0, fracd8_lim(r_ele, r_u, r_h, Res), "none")

Call_fracd8_inf(max_offset, nan) ==
    /\ out_fn = "none"
    /\ returned("fracd8_inf", max_offset, nan,
                fracd8_inf(r_ele, r_u, r_h, Res, max_offset, nan), "none")

\* the limited router never runs the cast
returned_fracd8(max_offset, nan, r) ==
    returned("fracd8", max_offset,
             IF r.mode = "infinite" THEN nan ELSE 0, r, r.mode)

Call_fracd8(max_offset, nan) ==
    /\ out_fn = "none"
    /\ returned_fracd8(max_offset, nan,
                       fracd8(r_ele, r_u, r_h, Res, max_offset, nan))

\* h, asp = fracd8_lim(ele, u, h, res): the returned thickness of a first
\* call on the unchanged grids is the argument of the next call
Feed ==
    /\ out_fn \in {"fracd8_lim", "fracd8_inf"}
    /\ ~out_failed
    /\ poked = {}
    /\ r_h_den = 1
    /\ r_h' = out_h
    /\ r_h_den' = Res
    /\ out_fn' = "none"
    /\ out_max_offset' = 0
    /\ out_nan' = 0
    /\ out_h' = [c \in Grid |-> 0]
    /\ out_asp' = [c \in Grid |-> 0]
    /\ out_mode' = "none"
    /\ out_failed' = FALSE
    /\ UNCHANGED <<r_ele, r_u, poked>>

(***************************************************************************)
(* utils/store.py: ArrayStore and LiFoStack.  A layer is an array of       *)
(* StoreCells, its values are rationals or NaN.                            *)
(***************************************************************************)
VARIABLES
    container,      \* ArrayStore._container: key -> [size, stack]
    pushed,         \* key -> every layer pushed since create, oldest first
    ret             \* the last operation, its key and what it returned

store_vars == <<container, pushed, ret>>

MaxSize == 3        \* largest size given to create
MaxPushes == 4      \* pushes on all layers together

Keys == {"h", "u"}

StoreCells == 1..2

\* the arrays that are pushed
Layers ==
    { <<RInt(1), RInt(2)>>, <<RInt(3), NaN>>, <<RInt(6), NaN>> }

NoValue == <<>>

returns(name, key, raised, value) ==
    ret' = [op |-> name, key |-> key, raised |-> raised, value |-> value]

StoreInit ==
    /\ container = <<>>
    /\ pushed = <<>>
    /\ ret = [op |-> "none", key |-> "none", raised |-> "none",
              value |-> NoValue]

RECURSIVE TotalPushes(_)
TotalPushes(keys) ==
    IF keys = {} THEN 0
    ELSE LET k == CHOOSE k \in keys : TRUE
         IN  Len(pushed[k]) + TotalPushes(keys \ {k})

\* LiFoStack(size)
LiFoStack(size) == [size |-> size, stack |-> <<>>]

\* a push that keeps the newest layer out when the stack is full
push_drop_newest(st, layer) ==
    IF Len(st.stack) >= st.size THEN st
    ELSE [st EXCEPT !.stack = Append(st.stack, layer)]

\* self._stack.append(np.copy(layer));
\* if len(self._stack) > self.size: self._stack.pop(0)
push(st, layer) ==
    LET appended == Append(st.stack, layer)
    IN  [st EXCEPT !.stack = IF Len(appended) > st.size
                             THEN Tail(appended) ELSE appended]

\* a read that takes the layer off the stack
pop_removes(st) == SubSeq(st.stack, 1, Len(st.stack) - 1)

\* the stack after return self._stack[-1]
pop(st) == st.stack

\* the values of cell c in the layers of stack that are not NaN
Numbers(stack, c) == SelectSeq([k \in 1..Len(stack) |-> stack[k][c]],
                               LAMBDA v : ~IsNaN(v))

\* a mean that counts a NaN as a value
mean_all(stack) ==
    [c \in StoreCells |-> RMean([k \in 1..Len(stack) |-> stack[k][c]])]

\* np.nanmean(np.stack(all), axis=0)
nanmean(stack) == [c \in StoreCells |-> RMean(Numbers(stack, c))]

\* differences taken from the newer to the older snapshot
np_diff_backwards(stack) ==
    [k \in 1..(Len(stack) - 1) |->
        [c \in StoreCells |-> RSub(stack[k][c], stack[k + 1][c])]]

\* np.diff(np.stack(all), axis=0)
np_diff(stack) ==
    [k \in 1..(Len(stack) - 1) |->
        [c \in StoreCells |-> RSub(stack[k + 1][c], stack[k][c])]]

\* ArrayStore.create(key, size): a layer that exists is replaced by an
\* empty one
Create(key, size) ==
    /\ container' = (key :> LiFoStack(size)) @@ container
    /\ pushed' = (key :> <<>>) @@ pushed
    /\ returns("create", key, "none", NoValue)

\* ArrayStore.__setitem__(key, layer)
SetItem(key, layer) ==
    /\ key \in DOMAIN container
    /\ TotalPushes(DOMAIN pushed) < MaxPushes
    /\ container' = [container EXCEPT ![key] = push(@, layer)]
    /\ pushed' = [pushed EXCEPT ![key] = Append(@, layer)]
    /\ returns("setitem", key, "none", NoValue)

\* ArrayStore.__getitem__(key): self._stack[-1] of an empty list raises
GetItem(key) ==
    /\ key \in DOMAIN container
    /\ IF container[key].stack = <<>>
       THEN /\ returns("getitem", key, "IndexError", NoValue)
            /\ UNCHANGED container
       ELSE /\ returns("getitem", key, "none", Last(container[key].stack))
            /\ container' = [container EXCEPT ![key].stack = pop(container[key])]
    /\ UNCHANGED pushed

\* ArrayStore.mean(key): np.stack of an empty list raises
Mean(key) ==
    /\ key \in DOMAIN container
    /\ IF container[key].stack = <<>>
       THEN returns("mean", key, "ValueError", NoValue)
       ELSE returns("mean", key, "none", nanmean(container[key].stack))
    /\ UNCHANGED <<container, pushed>>

\* ArrayStore.diff(key)
Diff(key) ==
    /\ key \in DOMAIN container
    /\ IF container[key].stack = <<>>
       THEN returns("diff", key, "ValueError", NoValue)
       ELSE returns("diff", key, "none",
                    nanmean(np_diff(container[key].stack)))
    /\ UNCHANGED <<container, pushed>>

(***************************************************************************)
(* Specifications                                                          *)
(***************************************************************************)
vars == <<ctl_vars, route_vars, store_vars>>

\* Spec: the simulation controller
Init == CtlInit /\ RouteIdle /\ StoreInit

Next ==
    \/ \E my \in 0..MaxYears :
          reach_steady_state(my) /\ UNCHANGED <<route_vars, store_vars>>
    \/ \E tc \in TempChanges, my \in 0..MaxYears :
          simulate(tc, my) /\ UNCHANGED <<route_vars, store_vars>>
    \/ \E speed \in Speeds, dir \in NudgedShifts :
          YearTick(speed, dir) /\ UNCHANGED <<route_vars, store_vars>>
    \/ IterateExit /\ UNCHANGED <<route_vars, store_vars>>

Spec == Init /\ [][Next]_vars

CtlIdle == CtlInit /\ tolerance = RInt(8)

\* SpecRoute: the routing functions called on the valley with at most
\* MaxPokes changed cells
RouteSpecInit == CtlIdle /\ RouteInit /\ StoreInit

RouteNext ==
    \/ \E c \in Grid, d \in ValleyDrops :
          PokeEle(c, d, MaxPokes) /\ UNCHANGED <<ctl_vars, store_vars>>
    \/ \E c \in Interior, v \in HPokes :
          PokeH(c, v) /\ UNCHANGED <<ctl_vars, store_vars>>
    \/ \E c \in UCells, v \in UPokes :
          PokeU(c, v) /\ UNCHANGED <<ctl_vars, store_vars>>
    \/ Call_classify_aspect /\ UNCHANGED <<ctl_vars, store_vars>>
    \/ Call_fracd8_lim /\ UNCHANGED <<ctl_vars, store_vars>>
    \/ \E mo \in 0..MaxOffset, nan \in NanCasts :
          Call_fracd8_inf(mo, nan) /\ UNCHANGED <<ctl_vars, store_vars>>
    \/ \E mo \in 0..MaxOffset, nan \in NanCasts :
          Call_fracd8(mo, nan) /\ UNCHANGED <<ctl_vars, store_vars>>
    \/ Feed /\ UNCHANGED <<ctl_vars, store_vars>>

SpecRoute == RouteSpecInit /\ [][RouteNext]_vars

\* SpecAspect: the direction grids of a plateau with at most MaxElePokes
\* lowered cells
AspectSpecInit == CtlIdle /\ AspectInit /\ StoreInit

AspectNext ==
    \/ \E c \in Grid, d \in EleDrops :
          PokeEle(c, d, MaxElePokes) /\ UNCHANGED <<ctl_vars, store_vars>>
    \/ Call_classify_aspect /\ UNCHANGED <<ctl_vars, store_vars>>
    \/ Call_fracd8_lim /\ UNCHANGED <<ctl_vars, store_vars>>
    \/ \E nan \in NanCasts :
          Call_fracd8_inf(DefaultMaxOffset, nan)
             /\ UNCHANGED <<ctl_vars, store_vars>>
    \/ \E mo \in {0, DefaultMaxOffset}, nan \in NanCasts :
          Call_fracd8(mo, nan) /\ UNCHANGED <<ctl_vars, store_vars>>

SpecAspect == AspectSpecInit /\ [][AspectNext]_vars

\* SpecStore: an ArrayStore with at most MaxPushes pushed layers
StoreSpecInit == CtlIdle /\ RouteIdle /\ StoreInit

StoreNext ==
    \/ \E key \in Keys, size \in 0..MaxSize :
          Create(key, size) /\ UNCHANGED <<ctl_vars, route_vars>>
    \/ \E key \in Keys, layer \in Layers :
          SetItem(key, layer) /\ UNCHANGED <<ctl_vars, route_vars>>
    \/ \E key \in Keys : GetItem(key) /\ UNCHANGED <<ctl_vars, route_vars>>
    \/ \E key \in Keys : Mean(key) /\ UNCHANGED <<ctl_vars, route_vars>>
    \/ \E key \in Keys : Diff(key) /\ UNCHANGED <<ctl_vars, route_vars>>

SpecStore == StoreSpecInit /\ [][StoreNext]_vars

\* SpecTrend: runs long enough to fill the short term trend window, every
\* year with the same velocity and direction
TrendYears == 20    \* the long budget of a run

TrendNext ==
    \/ \E my \in {1, TrendYears} :
          reach_steady_state(my) /\ UNCHANGED <<route_vars, store_vars>>
    \/ \E tc \in {-2, 2}, my \in {1, TrendYears} :
          simulate(tc, my) /\ UNCHANGED <<route_vars, store_vars>>
    \/ YearTick(Res \div 2, "next") /\ UNCHANGED <<route_vars, store_vars>>
    \/ IterateExit /\ UNCHANGED <<route_vars, store_vars>>

SpecTrend == Init /\ [][TrendNext]_vars

(***************************************************************************)
(* Properties of the simulation controller (specification Spec)            *)
(***************************************************************************)
\* the step is the call of a public operation
IsCall(name) == calls' # calls /\ op' = name

\* the step is one year of the loop
IsTick == pc = "iterate" /\ loop_i' = loop_i + 1

series == <<mass, mass_balance, mass_balance_s_trend, mass_balance_l_trend>>

\* C1: simulate called while the steady flag is False runs no year and
\* leaves the year, ela, the flag, the three grids and the four time
\* series as they were
C1_RejectedSimulateIsNoOp ==
    [][(IsCall("simulate") /\ ~steady_state)
          => /\ gfm' = gfm
             /\ pc' = "idle"
             /\ outcome' = "rejected"]_vars

\* a simulate was rejected on an instance whose earlier run had moved the
\* year, the grids and the series
C1_Witness ==
    /\ op = "simulate"
    /\ outcome = "rejected"
    /\ i > 0
    /\ h # Zeros
    /\ Len(mass) > 1

\* C2: the call of reach_steady_state leaves year 0, ela_start, the flag
\* False, zero thickness and velocity, the bedrock elevation, every time
\* series at its one initial entry and no forcing, whatever the state was
C2_ReachResetsEverything ==
    [][IsCall("reach_steady_state")
          => /\ i' = 0
             /\ ela' = ela_start
             /\ steady_state' = FALSE
             /\ h' = Zeros
             /\ u' = Zeros
             /\ ele' = [c \in Cells |-> MDen * ele_orig[c]]
             /\ series' = <<<<RInt(0)>>, <<RInt(0)>>, <<RInt(0)>>, <<RInt(0)>>>>
             /\ temp_change' = 0
             /\ pc' = "iterate"
             /\ loop_i' = 0]_vars

\* reach_steady_state was called, with its first year still to run, on an
\* instance that two earlier calls had used
C2_Witness ==
    /\ op = "reach_steady_state"
    /\ pc = "iterate"
    /\ loop_i = 0
    /\ calls = MaxCalls
    /\ Len(mass) = 1
    /\ ela = ela_start

\* C3: an accepted simulate sets the year to 0 and the flag to False and
\* changes nothing else of the instance; every year of it appends one entry
\* to each time series and keeps the entries that were there
C3_AcceptedSimulateFrame ==
    [][/\ (IsCall("simulate") /\ steady_state)
            => /\ i' = 0
               /\ steady_state' = FALSE
               /\ <<ela, ele, h, u, series>>' = <<ela, ele, h, u, series>>
               /\ pc' = "iterate"
       /\ IsTick
            => \A k \in 1..4 :
                  /\ Len(series'[k]) = Len(series[k]) + 1
                  /\ SubSeq(series'[k], 1, Len(series[k])) = series[k]]_vars

\* a year of an accepted simulate has run on top of the series and the ice
\* of the run before it
C3_Witness ==
    /\ op = "simulate"
    /\ outcome # "rejected"
    /\ loop_i = 1
    /\ Len(mass) > 2
    /\ h # Zeros

\* C4: a run makes at most max_years year ticks; it ends Steady with the
\* flag True, in the year the test passed and with no later year, or
\* NotConverged with the budget used up and the flag False
C4_RunTerminates ==
    [][/\ loop_i' <= max_years'
       /\ outcome' = "steady"
            => steady_state' /\ pc' = "idle" /\ i' = loop_i' - 1
       /\ outcome' = "not_converged"
            => ~steady_state' /\ pc' = "idle" /\ loop_i' = max_years'
       /\ outcome' = "running" => ~steady_state' /\ pc' = "iterate"
       /\ pc' = "idle" => outcome' # "running"
       /\ (outcome \in {"steady", "not_converged"} /\ calls' = calls)
            => UNCHANGED <<gfm, frame>>]_vars

\* a run used its whole budget of years and ended NotConverged
C4_Witness ==
    /\ outcome = "not_converged"
    /\ loop_i = MaxYears
    /\ i = MaxYears - 1
    /\ ~steady_state

\* C5: a run becomes Steady only after LTrendSize years of it have elapsed,
\* and from then on in exactly the first year whose long term trend t has
\* -tolerance <= t <= tolerance
C5_SteadyOnlyAfterTrendWindow ==
    [][IsTick
          => (outcome' = "steady"
                <=> /\ loop_i' >= LTrendSize
                    /\ RLe(RNeg(tolerance), Last(mass_balance_l_trend'))
                    /\ RLe(Last(mass_balance_l_trend'), tolerance))]_vars

\* the target of the forcing ramp, ela_start + 100 * temp_change, times TcDen
RampTarget == TcDen * ela_start + 100 * temp_change

\* C6: a year changes ela by at most 1 and only towards the target
\* ela_start + 100 * temp_change, ela never passes the target, and without
\* forcing it stays ela_start
C6_ElaSaturatesAtTarget ==
    [][IsTick
          => /\ Abs(ela' - ela) <= 1
             /\ ela' # ela
                  => Abs(TcDen * ela' - RampTarget) < Abs(TcDen * ela - RampTarget)
             /\ temp_change > 0 => TcDen * ela' <= RampTarget
             /\ temp_change < 0 => TcDen * ela' >= RampTarget
             /\ temp_change = 0 => ela' = ela
             /\ op = "reach_steady_state" => ela' = ela_start]_vars

\* the mean of the last min(w, Len(s)) values of s
WindowMean(s, w) ==
    RMean([k \in 1..(IF Len(s) < w THEN Len(s) ELSE w) |->
              s[Len(s) - (IF Len(s) < w THEN Len(s) ELSE w) + k]])

\* C24: the mass balance appended in a year is the first difference of the
\* mean ice mass, and the trends appended in it are the means of the last
\* min(W, number of recorded values) mass balances, W = 20 for the short
\* and W = 100 for the long term trend, in reach_steady_state and simulate
C24_TrendIsWindowMean ==
    [][IsTick
          => /\ Last(mass_balance')
                  = RSub(Last(mass'), mass'[Len(mass') - 1])
             /\ Last(mass_balance_s_trend')
                  = WindowMean(mass_balance', STrendSize)
             /\ Last(mass_balance_l_trend')
                  = WindowMean(mass_balance', LTrendSize)]_vars

(***************************************************************************)
(* Properties of the routers (specifications SpecRoute and SpecAspect)     *)
(***************************************************************************)
\* the call returned the grids of r
Returned(r) ==
    /\ out_h = r.h_flow
    /\ out_asp = r.asp
    /\ out_failed = r.failed

\* C7: fracd8 labels its result "limited" and returns the grids of
\* fracd8_lim exactly when max_offset < 1 or every velocity is below res;
\* otherwise it labels it "infinite" and returns the grids of fracd8_inf
C7_ModeSelection ==
    out_fn = "fracd8"
      => IF out_max_offset < 1 \/ \A c \in Grid : r_u[c] < Res
         THEN /\ out_mode = "limited"
              /\ Returned(fracd8_lim(r_ele, r_u, r_h, Res))
         ELSE /\ out_mode = "infinite"
              /\ Returned(fracd8_inf(r_ele, r_u, r_h, Res,
                                     out_max_offset, out_nan))

\* fracd8 was called with a positive max_offset on velocities whose maximum
\* is exactly res
C7_Witness ==
    /\ out_fn = "fracd8"
    /\ out_max_offset >= 1
    /\ \A c \in Grid : r_u[c] <= Res
    /\ \E c \in Grid : r_u[c] = Res
    /\ out_mode = "infinite"

\* C8: the direction grid returned by fracd8_lim, by fracd8_inf and by
\* fracd8 in either mode equals the grid of classify_aspect in every cell
C8_SameDirectionGrid ==
    out_fn \in {"fracd8_lim", "fracd8_inf", "fracd8"}
      => out_asp = classify_aspect(r_ele)

\* the neighbours of cell c with the largest drop of e, if that is positive
Steepest(e, single, c) ==
    {n \in 1..8 :
        /\ drop(e, single, c[1], c[2], n) > 0
        /\ \A k \in 1..8 :
              drop(e, single, c[1], c[2], k) <= drop(e, single, c[1], c[2], n)}

\* wherever two or more neighbours share the largest positive drop of e,
\* asp names the one of them with the smallest index
TieBroken(e, single, asp) ==
    \A c \in Interior :
        Cardinality(Steepest(e, single, c)) >= 2
          => /\ asp[c] \in Steepest(e, single, c)
             /\ \A n \in Steepest(e, single, c) : asp[c] <= n

RECURSIVE SumFrom(_, _, _)
\* the sum of the values of g on the cells of cells, in row major order
\* from index k on
SumFrom(g, cells, k) ==
    IF k >= Rows * Cols THEN 0
    ELSE (IF <<k \div Cols, k % Cols>> \in cells
          THEN g[<<k \div Cols, k % Cols>>] ELSE 0)
         + SumFrom(g, cells, k + 1)

\* C10: a call of fracd8_lim or fracd8_inf on a grid whose interior
\* thickness is 0 or at least the threshold everywhere, and the call that
\* follows it on the returned thickness, each return a thickness grid whose
\* sum is the sum of their input over the interior
C10_MassConserved ==
    (/\ out_fn \in {"fracd8_lim", "fracd8_inf"}
     /\ \/ \A c \in Interior : r_h[c] = 0 \/ ~below_threshold(r_h[c])
        \/ r_h_den = Res)
      => /\ ~out_failed
         /\ SumFrom(out_h, Grid, 0) = Res * SumFrom(r_h, Interior, 0)

\* C11: a routing call leaves the border ring as it was: every border cell
\* of the returned thickness holds its input value, and every border cell
\* of the returned direction grid holds the 0 it had before the call
C11_BorderInvariance ==
    out_fn \in {"fracd8_lim", "fracd8_inf", "fracd8"}
      => \A c \in Border :
            /\ out_h[c] = Res * r_h[c]
            /\ out_asp[c] = 0

\* C16: every cell of a returned direction grid holds an integer of 0..8;
\* an interior cell holds 0 exactly when no neighbour is strictly lower and
\* otherwise the index of a strictly lower neighbour with the largest drop;
\* every border cell holds 0
C16_DirectionGrid ==
    out_fn \in {"classify_aspect", "fracd8_lim", "fracd8_inf", "fracd8"}
      => /\ \A c \in Grid : out_asp[c] \in 0..8
         /\ \A c \in Border : out_asp[c] = 0
         /\ \A c \in Interior :
               IF Steepest(r_ele, FALSE, c) = {}
               THEN out_asp[c] = 0
               ELSE out_asp[c] \in Steepest(r_ele, FALSE, c)

\* the row and column offset of direction n
Offset(n) ==
    CASE n = 0 -> <<0, 0>>
      [] n = 1 -> <<1, 1>>
      [] n = 2 -> <<0, 1>>
      [] n = 3 -> <<-1, 1>>
      [] n = 4 -> <<-1, 0>>
      [] n = 5 -> <<-1, -1>>
      [] n = 6 -> <<0, -1>>
      [] n = 7 -> <<1, -1>>
      [] n = 8 -> <<1, 0>>

\* C17: position(x, y, n) is (y, x) for n = 0 and the cell at the row and
\* column offset (+1,+1), (0,+1), (-1,+1), (-1,0), (-1,-1), (0,-1), (+1,-1),
\* (+1,0) for n = 1..8, eight distinct cells adjacent to (y, x); the
\* directions returned by classify_aspect, fracd8_lim and fracd8_inf index
\* the same table: the cell at the offset of a returned direction is lower
C17_PositionTable ==
    /\ \A c \in Grid, n \in 0..8 :
          position(c[2], c[1], n) = <<c[1] + Offset(n)[1], c[2] + Offset(n)[2]>>
    /\ \A c \in Grid :
          /\ Cardinality({position(c[2], c[1], n) : n \in 1..8}) = 8
          /\ \A n \in 1..8 :
                /\ position(c[2], c[1], n) # c
                /\ Abs(position(c[2], c[1], n)[1] - c[1]) <= 1
                /\ Abs(position(c[2], c[1], n)[2] - c[2]) <= 1
    /\ out_fn \in {"classify_aspect", "fracd8_lim", "fracd8_inf"}
         => \A c \in Interior :
               out_asp[c] \in 1..8
                 => LET e == IF out_fn = "fracd8_lim" THEN r_ele
                             ELSE astype_float32(r_ele)
                        to == <<c[1] + Offset(out_asp[c])[1],
                                c[2] + Offset(out_asp[c])[2]>>
                    IN  e[to] < e[c]

\* classify_aspect returned a direction whose row and column offsets differ
C17_Witness ==
    /\ out_fn = "classify_aspect"
    /\ \E c \in Interior : out_asp[c] = 7

(***************************************************************************)
(* Properties of one routing call, cell by cell (specification SpecRoute)  *)
(***************************************************************************)
\* the cell at the offset of direction n from cell c
Towards(c, n) == <<c[1] + Offset(n)[1], c[2] + Offset(n)[2]>>

RECURSIVE Total(_, _, _)
\* the sum, over the sources s of cells, of what part(s, c) gives to cell c
Total(part(_, _), cells, c) ==
    IF cells = {} THEN 0
    ELSE LET s == CHOOSE s \in cells : TRUE
         IN  part(s, c) + Total(part, cells \ {s}, c)

\* the interior cells that flow: a thickness of at least the threshold and
\* a direction
Flowing == {s \in Interior : ~below_threshold(r_h[s]) /\ out_asp[s] # 0}

\* the numerator over Res of f = min(u, 0.9999 res) / res
LimitedF(s) == IF 10000 * r_u[s] < 9999 * Res THEN r_u[s]
               ELSE (9999 * Res) \div 10000

\* what source s gives to cell c under Limited routing: h (1 - f) to
\* itself and h f to the neighbour of its direction; all of h when it is a
\* pit, nothing when it is below the threshold
LimitedPart(s, c) ==
    IF below_threshold(r_h[s]) THEN 0
    ELSE IF out_asp[s] = 0 THEN (IF c = s THEN Res * r_h[s] ELSE 0)
    ELSE (IF c = s THEN r_h[s] * (Res - LimitedF(s)) ELSE 0)
         + (IF c = Towards(s, out_asp[s]) THEN r_h[s] * LimitedF(s) ELSE 0)

\* C21: after fracd8_lim every cell of the returned thickness is the sum,
\* over the interior cells, of h (1 - f) for the cell itself and h f for
\* the neighbour of its direction, with f = min(u, 0.9999 res) / res < 1,
\* and a flowing cell keeps at least 0.0001 h of its own thickness
C21_LimitedPerCell ==
    out_fn = "fracd8_lim"
      => /\ ~out_failed
         /\ \A c \in Grid : out_h[c] = Total(LimitedPart, Interior, c)
         /\ \A s \in Flowing :
               /\ LimitedF(s) < Res
               /\ out_h[s] >= r_h[s] * (Res \div 10000)

\* fracd8_lim ran on a grid where a cell faster than the cap flows into
\* another flowing cell
C21_Witness ==
    /\ out_fn = "fracd8_lim"
    /\ \E s \in Flowing, t \in Flowing :
          /\ s # t
          /\ Towards(s, out_asp[s]) = t
          /\ r_u[s] > Res

\* one step along the direction grid asp from cell c: the neighbour of its
\* direction, the cell itself on a pit, and <<-1, -1>> for no cell when c
\* or its direction is none
Step(asp, c) ==
    IF c \in Grid /\ asp[c] \in 0..8 THEN Towards(c, asp[c]) ELSE <<-1, -1>>

RECURSIVE Walk(_, _, _)
\* the cell reached from c after k steps along asp
Walk(asp, c, k) == IF k = 0 THEN c ELSE Walk(asp, Step(asp, c), k - 1)

\* hops = min(floor(u / res), max_offset)
Hops(s) == IF r_u[s] \div Res < out_max_offset THEN r_u[s] \div Res
           ELSE out_max_offset

\* the numerator over Res of share = u / res - floor(u / res)
Share(s) == r_u[s] - Res * (r_u[s] \div Res)

\* what source s gives to cell c under Infinite routing: h (1 - share) to
\* the landing cell of its walk and h share to the cell one step further
InfinitePart(s, c) ==
    IF below_threshold(r_h[s]) THEN 0
    ELSE IF out_asp[s] = 0 THEN (IF c = s THEN Res * r_h[s] ELSE 0)
    ELSE LET land == Walk(out_asp, s, Hops(s))
         IN  (IF c = land THEN r_h[s] * (Res - Share(s)) ELSE 0)
             + (IF c = Step(out_asp, land) THEN r_h[s] * Share(s) ELSE 0)

\* every flowing cell lands on a cell of the grid and so does its share
WalksInGrid ==
    \A s \in Flowing :
        /\ Walk(out_asp, s, Hops(s)) \in Grid
        /\ Step(out_asp, Walk(out_asp, s, Hops(s))) \in Grid

Inflow(c) ==
    IF out_fn = "fracd8_lim" THEN Total(LimitedPart, Interior \ {c}, c)
    ELSE Total(InfinitePart, Interior \ {c}, c)

\* C23: in the grid returned by fracd8_lim or fracd8_inf an interior cell
\* that is a pit or holds less than the threshold has its input thickness
\* plus what the other cells give to it
C23_NoOutflowRetainsAll ==
    (out_fn \in {"fracd8_lim", "fracd8_inf"} /\ ~out_failed)
      => \A s \in Interior :
            (out_asp[s] = 0 \/ below_threshold(r_h[s]))
              => out_h[s] = Res * r_h[s] + Inflow(s)

\* the orders of the interior cells that are tried: the loop order started
\* at each of its cells, and the loop order backwards
Rotated(r) ==
    [k \in 1..Len(InteriorSeq) |->
        InteriorSeq[((k - 1 + r) % Len(InteriorSeq)) + 1]]

Reversed(order) == [k \in 1..Len(order) |-> order[Len(order) + 1 - k]]

Orders ==
    {Rotated(r) : r \in 0..(Len(InteriorSeq) - 1)}
      \cup {Reversed(InteriorSeq)}

\* the deposits of the loop body of cell s in the call that returned
BodyOf(s) ==
    IF out_fn = "fracd8_lim" THEN lim_deposit(out_asp, r_u, r_h, Res, s).d
    ELSE inf_deposit(out_asp, r_u, r_h, Res, out_max_offset, s).d

\* the deposits of every loop body
Bodies == Table([s \in Interior |-> BodyOf(s)])

RECURSIVE InOrder(_, _, _)
\* the deposits of the loop bodies run in the given order, from its k-th on
InOrder(bodies, order, k) ==
    IF k > Len(order) THEN <<>>
    ELSE bodies[order[k]] \o InOrder(bodies, order, k + 1)

RECURSIVE Accumulated(_, _, _, _)
\* cell c after the deposits d are added to acc one by one, each sum
\* stored as float32 when single, exactly otherwise
Accumulated(d, c, acc, single) ==
    IF d = <<>> THEN acc
    ELSE Accumulated(Tail(d), c,
                     IF Head(d)[1] # c THEN acc
                     ELSE IF single THEN F32(acc + Head(d)[2])
                     ELSE acc + Head(d)[2],
                     single)

\* the float32 grids of the deposits d and of the loop order agree
SameStored(d, loop) ==
    \A c \in Grid : Accumulated(d, c, 0, TRUE) = Accumulated(loop, c, 0, TRUE)

\* the deposits d sum to the returned grid, and stored as float32 they
\* stay within half a float32 spacing per deposit of it
SameSum(d) ==
    \A c \in Grid :
        /\ Accumulated(d, c, 0, FALSE) = out_h[c]
        /\ Abs(Accumulated(d, c, 0, TRUE) - out_h[c])
              <= Len(d) * (Ulp(out_h[c], 1) \div 2)

\* every tried order stores the float32 grid of the loop order
SameStoredInAnyOrder(bodies) ==
    \A order \in Orders :
        SameStored(InOrder(bodies, order, 1), InOrder(bodies, InteriorSeq, 1))

SameSumInAnyOrder(bodies) ==
    \A order \in Orders : SameSum(InOrder(bodies, order, 1))

\* C26 as stated: a call of fracd8_lim or fracd8_inf leaves its arguments
\* as they were, and running the loop bodies of the cells in any other
\* order gives the same float32 thickness grid
C26_SameGridInAnyOrder ==
    /\ [][out_fn' # out_fn => route_in' = route_in \/ out_fn' = "none"]_vars
    /\ [](out_fn \in {"fracd8_lim", "fracd8_inf"} /\ ~out_failed
            => SameStoredInAnyOrder(Bodies))

\* C26: a call of fracd8_lim or fracd8_inf leaves its arguments as they
\* were, and running the loop bodies of the cells in any other order adds
\* up, in every cell, the same deposits; the float32 grid they are stored
\* in follows the order, within half a float32 spacing per deposit
C26_SameSumInAnyOrder ==
    /\ [][out_fn' # out_fn => route_in' = route_in \/ out_fn' = "none"]_vars
    /\ [](out_fn \in {"fracd8_lim", "fracd8_inf"} /\ ~out_failed
            => SameSumInAnyOrder(Bodies))

\* a router returned a grid in which one order of the cells stores another
\* float32 value than the loop order
C26_Witness ==
    /\ out_fn \in {"fracd8_lim", "fracd8_inf"}
    /\ ~out_failed
    /\ ~SameStoredInAnyOrder(Bodies)

(***************************************************************************)
(* Properties of the history buffer (specification SpecStore)              *)
(***************************************************************************)
\* the layers of key that a buffer of its size retains: the last
\* min(n, size) of the n pushed ones, oldest first
Retained(key) ==
    LET n == Len(pushed[key])
        c == container[key].size
    IN  [k \in 1..(IF n < c THEN n ELSE c) |->
            pushed[key][k + (IF n < c THEN 0 ELSE n - c)]]

\* C12: a layer created with capacity c >= 1 holds, after n pushes, exactly
\* the last min(n, c) pushed snapshots in the order they were pushed, and
\* never more than c
C12_EvictsOldest ==
    \A key \in DOMAIN container :
        container[key].size >= 1
          => /\ container[key].stack = Retained(key)
             /\ Len(container[key].stack) <= container[key].size

\* more layers were pushed on a layer than its capacity of at least 2 holds
C12_Witness ==
    \E key \in DOMAIN container :
        /\ container[key].size >= 2
        /\ Len(pushed[key]) > container[key].size

\* C13: reading a layer returns the snapshot pushed last and leaves the
\* snapshots of every layer as they were, so that a read that follows a
\* read of the same layer returns the same
C13_ReadRemovesNothing ==
    [][ret'.op = "getitem"
          => /\ container' = container
             /\ (container[ret'.key].size >= 1 /\ pushed[ret'.key] # <<>>)
                  => /\ ret'.raised = "none"
                     /\ ret'.value = Last(pushed[ret'.key])
             /\ (ret.op = "getitem" /\ ret.key = ret'.key) => ret' = ret]_vars

\* a layer that holds two snapshots was read while the other layer held
\* one as well
C13_Witness ==
    /\ ret.op = "getitem"
    /\ ret.raised = "none"
    /\ Len(container[ret.key].stack) >= 2
    /\ \E key \in DOMAIN container :
          key # ret.key /\ container[key].stack # <<>>

\* C14 as stated: mean(key) is, in every cell, the arithmetic mean of the
\* values of all retained snapshots of the layer
C14_MeanOfRetained ==
    (ret.op = "mean" /\ ret.raised = "none")
      => \A c \in StoreCells :
            ret.value[c] =
               RMean([k \in 1..Len(Retained(ret.key)) |->
                         Retained(ret.key)[k][c]])

RECURSIVE SumOver(_, _, _)
\* the sum of the values of cell c in the snapshots with an index in ks
SumOver(snaps, c, ks) ==
    IF ks = {} THEN RInt(0)
    ELSE LET k == CHOOSE k \in ks : TRUE
         IN  RAdd(snaps[k][c], SumOver(snaps, c, ks \ {k}))

\* the retained snapshots of key whose cell c holds a number
Finite(key, c) ==
    {k \in 1..Len(Retained(key)) : Retained(key)[k][c].den # 0}

\* C14: mean(key) of a layer that retains a snapshot is, in every cell, the
\* arithmetic mean of the values that are not NaN among the retained
\* snapshots, and NaN where all of them are NaN
C14_MeanOfRetainedNumbers ==
    (ret.op = "mean" /\ container[ret.key].stack # <<>>)
      => /\ ret.raised = "none"
         /\ \A c \in StoreCells :
               LET total == SumOver(Retained(ret.key), c, Finite(ret.key, c))
                   count == Cardinality(Finite(ret.key, c))
               IN  ret.value[c] =
                      IF count = 0 THEN NaN
                      ELSE Rat(total.num, total.den * count)

\* the mean was taken of a layer that had evicted a snapshot and retains,
\* in one cell, a NaN next to a number
C14_Witness ==
    /\ ret.op = "mean"
    /\ ret.raised = "none"
    /\ Len(pushed[ret.key]) > container[ret.key].size
    /\ \E c \in StoreCells :
          /\ ret.value[c].den # 0
          /\ \E k \in 1..Len(Retained(ret.key)) :
                Retained(ret.key)[k][c].den = 0

RECURSIVE DiffSum(_, _, _)
\* the sum of the differences snaps[k + 1][c] - snaps[k][c] for k in ks
DiffSum(snaps, c, ks) ==
    IF ks = {} THEN RInt(0)
    ELSE LET k == CHOOSE k \in ks : TRUE
         IN  RAdd(RSub(snaps[k + 1][c], snaps[k][c]),
                  DiffSum(snaps, c, ks \ {k}))

\* the successive pairs of retained snapshots of key whose difference in
\* cell c is a number
FiniteDiffs(key, c) ==
    {k \in 1..(Len(Retained(key)) - 1) :
        Retained(key)[k][c].den # 0 /\ Retained(key)[k + 1][c].den # 0}

\* C25 as stated: diff(key) of a layer that retains a snapshot is a number
\* in every cell, and (newest - oldest) / (n - 1) for n >= 2 retained
\* snapshots
C25_DiffIsDefinedSlope ==
    (ret.op = "diff" /\ container[ret.key].stack # <<>>)
      => /\ ret.raised = "none"
         /\ \A c \in StoreCells :
               LET snaps == Retained(ret.key)
                   n     == Len(snaps)
                   rise  == RSub(snaps[n][c], snaps[1][c])
               IN  /\ ret.value[c].den # 0
                   /\ n >= 2 => ret.value[c] = Rat(rise.num, rise.den * (n - 1))

\* C25: diff(key) of a layer that retains a snapshot is, in every cell,
\* the mean of the differences between successive retained snapshots that
\* are numbers, and NaN where there is none, as for a single snapshot; in
\* a cell where all n >= 2 retained values are numbers that is
\* (newest - oldest) / (n - 1)
C25_DiffIsMeanOfDifferences ==
    (ret.op = "diff" /\ container[ret.key].stack # <<>>)
      => /\ ret.raised = "none"
         /\ \A c \in StoreCells :
               LET snaps == Retained(ret.key)
                   n     == Len(snaps)
                   total == DiffSum(snaps, c, FiniteDiffs(ret.key, c))
                   count == Cardinality(FiniteDiffs(ret.key, c))
                   rise  == RSub(snaps[n][c], snaps[1][c])
               IN  /\ ret.value[c] =
                         IF count = 0 THEN NaN
                         ELSE Rat(total.num, total.den * count)
                   /\ (n >= 2 /\ count = n - 1)
                        => ret.value[c] = Rat(rise.num, rise.den * (n - 1))

\* the diff was taken of a layer that had evicted a snapshot and retains
\* three, with a cell that rose by a number and a cell without a number
C25_Witness ==
    /\ ret.op = "diff"
    /\ ret.raised = "none"
    /\ Len(pushed[ret.key]) > container[ret.key].size
    /\ Len(container[ret.key].stack) >= 3
    /\ \E c \in StoreCells : ret.value[c].den # 0 /\ ret.value[c].num # 0
    /\ \E c \in StoreCells : ret.value[c].den = 0

(***************************************************************************)
(* Further properties of the controller (specification Spec)               *)
(***************************************************************************)
\* C15: a run with a budget of at least one year that exhausts the budget
\* ends with i = max_years - 1, a run that ends steady ends with i the
\* year of the tick that declared it, for reach_steady_state and for
\* simulate with either sign of temp_change, and a rejected simulate
\* leaves i as it was
C15_YearCounterIsLastYear ==
    [][/\ (outcome' = "not_converged" /\ max_years' >= 1)
            => i' = max_years' - 1
       /\ outcome' = "steady" => i' = loop_i' - 1
       /\ (IsCall("simulate") /\ outcome' = "rejected") => i' = i]_vars

\* a simulate was rejected after a run that had executed its last year
\* with a positive index
C15_Witness ==
    /\ op = "simulate"
    /\ outcome = "rejected"
    /\ max_years = MaxYears
    /\ i = MaxYears - 1
    /\ i >= 1

\* C18: the thickness is negative in no cell, neither in a state between
\* two calls or two year ticks nor, within the tick that is about to run,
\* after the mass balance, after the routing and after the smoothing with
\* zeroing, whatever velocity >= 0 and direction the tick computes
C18_ThicknessNeverNegative ==
    /\ \A c \in Cells : h[c] >= 0
    /\ (pc = "iterate" /\ loop_continues(loop_i, max_years))
         => \A speed \in Speeds, dir \in Directions :
               LET h1     == add_mass_balance_h(h, ela)
                   u1     == flow_u(h1, speed)
                   change == flow_change(h1, u1)
               IN  \A c \in Cells :
                      /\ u1[c] >= 0
                      /\ h1[c] >= 0
                      /\ h1[c] - change[c] + flow_inflow(change, dir, c) >= 0
                      /\ flow_h(h1, u1, dir)[c] >= 0

\* a year tick moved ice, and the mass balance of the tick that is about to
\* run takes a cell to below zero before the clipping
C18_Witness ==
    /\ pc = "iterate"
    /\ loop_i >= 1
    /\ loop_continues(loop_i, max_years)
    /\ \E c \in Cells : h[c] > 0 /\ u[c] > 0
    /\ \E c \in Cells : h[c] + MNum * (ele_orig[c] - ela) < 0

\* some entry of a time series is NaN
NonFiniteStatistics ==
    \E s \in 1..Len(series) : \E k \in 1..Len(series[s]) : IsNaN(series[s][k])

\* C19: a run neither goes on to a further year nor ends Steady or
\* NotConverged while a time series holds a non-finite value
C19_NoRunPastNonFinite ==
    (\/ pc = "iterate" /\ loop_continues(loop_i, max_years)
     \/ pc = "idle" /\ outcome \in {"steady", "not_converged"})
      => ~NonFiniteStatistics

\* C20: in every year of a run nudging is off, as it is by default, and the
\* grids the year leaves are the same for every draw of the random
\* generator, so that two runs on the same inputs end with the same grids
C20_Deterministic ==
    (pc = "iterate" /\ loop_continues(loop_i, max_years))
      => /\ ~MODEL_RANDOM_NUDGING
         /\ \A speed \in Speeds, asp \in AspectClasses :
               \A d1 \in Draws, d2 \in Draws :
                  LET h1 == add_mass_balance_h(h, ela)
                      u1 == flow_u(h1, speed)
                  IN  flow_h(h1, u1, shift_of(nudged(asp, d1)))
                         = flow_h(h1, u1, shift_of(nudged(asp, d2)))

\* C27: an accepted simulate with a forcing that has ended Steady has ela
\* at the target ela_start + 100 * temp_change
C27_SteadyOnlyAtTarget ==
    (op = "simulate" /\ outcome = "steady" /\ temp_change # 0)
      => TcDen * ela = RampTarget

\* the last year of an accepted simulate begins with ela at most one metre
\* from a target that is a whole number of metres: the budget of the call
\* was at least the distance between ela at the call and the target, as
\* ela moves by at most one metre a year
LastYearInReach ==
    /\ IsTick
    /\ op = "simulate"
    /\ loop_i = max_years - 1
    /\ RampTarget % TcDen = 0
    /\ Abs(TcDen * ela - RampTarget) <= TcDen

\* C28: an accepted simulate that does not become Steady and whose budget
\* is at least the distance between ela at the call and the target ends
\* with ela at the target, whatever ela was at the call: when its last
\* year begins at most one metre from the target and does not end Steady,
\* that year leaves ela at the target (targets that are no whole number of
\* metres are left out here)
C28_RampReachesTarget ==
    [][LastYearInReach /\ outcome' # "steady"
          => TcDen * ela' = RampTarget]_vars

\* the walk of source s is in the grid after k hops and its next hop goes
\* to a strictly lower cell, or stays where it is on a direction-0 cell
HopDescends(s, k) ==
    LET c == Walk(out_asp, s, k)
    IN  /\ c \in Grid
        /\ Step(out_asp, c) \in Grid
        /\ IF out_asp[c] = 0 THEN Step(out_asp, c) = c
           ELSE r_ele[Step(out_asp, c)] < r_ele[c]

C29_WalkStaysInGridOnZeroBorder ==
    out_fn = "fracd8_inf" /\ out_nan = 0
      => /\ ~out_failed
         /\ \A s \in Flowing : \A k \in 0..Hops(s) : HopDescends(s, k)

\* 0.9999 * res
SlowCap == (9999 * Res) \div 10000

\* the cells that fracd8_lim moves at u = res: they leave 0.0001 * h on
\* themselves
CappedCells(uu, lim) ==
    {s \in Interior : /\ uu[s] = Res
                      /\ ~below_threshold(r_h[s])
                      /\ lim.asp[s] # 0}

\* what cell c holds of the 0.0001 * h that the cells of capped leave on
\* themselves once each of them has moved it to its downhill neighbour
Moved(lim, capped, c) ==
    Total(LAMBDA s, d : IF d = Towards(s, lim.asp[s])
                        THEN r_h[s] * (Res - SlowCap) ELSE 0,
          capped, c)
      - (IF c \in capped THEN r_h[c] * (Res - SlowCap) ELSE 0)

\* the result inf of fracd8_inf has the thickness grid of the result lim of
\* fracd8_lim with the 0.0001 * h of the cells at u = res moved to their
\* downhill neighbours
SameAsLimited(uu, inf, lim) ==
    /\ ~inf.failed
    /\ ~lim.failed
    /\ \A c \in Grid :
          inf.h_flow[c] = lim.h_flow[c] + Moved(lim, CappedCells(uu, lim), c)

\* velocity grids with every cell at the same speed of 0..0.9999 res, or
\* at res
SlowGrids ==
    {[c \in Grid |-> v] : v \in {0, Res \div 2, SlowCap, Res}}

\* C30: on the elevation and thickness grids of a call of fracd8_inf with
\* max_offset >= 1 and under every velocity grid of 0..0.9999 res or of
\* res, fracd8_inf returns the thickness grid of fracd8_lim, except that
\* the 0.0001 * h which a cell at u = res keeps under fracd8_lim is on its
\* downhill neighbour
C30_SlowRoutersAgree ==
    (out_fn = "fracd8_inf" /\ out_max_offset >= 1)
      => \A uu \in SlowGrids :
            SameAsLimited(uu,
                fracd8_inf(r_ele, uu, r_h, Res, out_max_offset, out_nan),
                fracd8_lim(r_ele, uu, r_h, Res))

\* the same for the calls made with such a velocity grid on the valley
C30_SlowCallsAgree ==
    (/\ out_fn = "fracd8_inf"
     /\ out_max_offset >= 1
     /\ \A s \in Interior : r_u[s] \in 0..SlowCap \/ r_u[s] = Res)
      => SameAsLimited(r_u, [h_flow |-> out_h, failed |-> out_failed],
                       fracd8_lim(r_ele, r_u, r_h, Res))

\* the same for the calls in which no drop of the elevation is lost in
\* float32 and the conversion of NaN to uint8 yields 0
C30_SlowCallsAgreeOnSameDirections ==
    (/\ out_fn = "fracd8_inf"
     /\ out_max_offset >= 1
     /\ out_nan = 0
     /\ out_asp = lim_aspect(r_ele)
     /\ \A s \in Interior : r_u[s] \in 0..SlowCap \/ r_u[s] = Res)
      => SameAsLimited(r_u, [h_flow |-> out_h, failed |-> out_failed],
                       fracd8_lim(r_ele, r_u, r_h, Res))

=============================================================================
